---- MODULE Spec2Model ----
(***************************************************************************)
(* ArborX::Interpolation::MovingLeastSquares                               *)
(* (src/interpolation/ArborX_InterpMovingLeastSquares.hpp).                *)
(*                                                                         *)
(* One operator object is constructed (the constructor is modelled step by *)
(* step: size bookkeeping and the KOKKOS_ASSERT on the neighbour count,    *)
(* the tree, the query, the allocation and the per-cell tasks of           *)
(* fillValuesIndicesAndGetSourceView, the coefficient computation) and is  *)
(* then used by callers that run interpolate(), each with its own source   *)
(* values and its own output view.                                         *)
(*                                                                         *)
(* Modelling decisions:                                                    *)
(*  - points are 1-dimensional with integer coordinates (dimension = 1);   *)
(*  - FloatingCalculationType / value_t values are exact rationals         *)
(*    [n, d]; rounding is not modelled;                                    *)
(*  - a Kokkos::View is a record of its extents and its cells; a cell of a *)
(*    view allocated WithoutInitializing holds an "uninitialised" marker;  *)
(*  - KOKKOS_ASSERT is the contract check of Kokkos: when its condition is *)
(*    false it calls Kokkos::abort, which terminates the program.  The     *)
(*    model is of a build in which the contract checks are active;         *)
(*  - LinearBVH's query, polynomialBasisSize and                          *)
(*    movingLeastSquaresCoefficients live in other headers of the          *)
(*    repository; they are modelled from the specification (sections 4.1,  *)
(*    4.2 and 6).                                                          *)
(***************************************************************************)
EXTENDS Integers, Sequences, FiniteSets, TLC

\* ------------------------------------------------------------------ bounds
\* Largest number of source points.
MaxN == 2
\* Largest number of target points.
MaxM == 2
\* Point coordinates are drawn from 0..MaxCoord.
MaxCoord == 2
\* Polynomial degrees are drawn from 0..MaxDegree.
MaxDegree == 1
\* Source values are drawn from 0..MaxVal.
MaxVal == 1

\* The callers of interpolate (two, so that two calls can overlap).
Callers == {1, 2}

\* --------------------------------------------------------------- constants
dimension == 1

\* std::nullopt for the optional num_neighbors argument.
Nullopt == -1000
\* What an int cell allocated WithoutInitializing (or a member that was never
\* assigned) holds until it is written.
UninitInt == -999
\* The same for a cell of a floating type: a record that is no rational.
UninitVal == [n |-> 0, d |-> 0]
\* The state of source_tree before its constructor ran.
NoTree == [e0 |-> -1, data |-> <<>>]

\* ------------------------------------------------------------ arithmetic
Abs(x) == IF x < 0 THEN -x ELSE x

RECURSIVE GCD(_, _)
GCD(a, b) == IF b = 0 THEN a ELSE GCD(b, a % b)

\* The rational n/d (d # 0) in lowest terms with a positive denominator.
Rat(n, d) ==
  LET g == GCD(Abs(n), Abs(d))
      s == IF d < 0 THEN -1 ELSE 1
  IN  [n |-> (s * n) \div g, d |-> (s * d) \div g]

RatAdd(a, b) == Rat(a.n * b.d + b.n * a.d, a.d * b.d)
RatMul(a, b) == Rat(a.n * b.n, a.d * b.d)
Zero == Rat(0, 1)
One == Rat(1, 1)

RECURSIVE Pow(_, _)
Pow(x, k) == IF k = 0 THEN 1 ELSE x * Pow(x, k - 1)

RECURSIVE Binomial(_, _)
Binomial(n, k) ==
  IF k = 0 THEN 1 ELSE IF n = 0 THEN 0
  ELSE Binomial(n - 1, k - 1) + Binomial(n - 1, k)

\* ------------------------------------------------------------------ views
\* A rank-1 view of n cells, cell x holding f[x].
View1(n, f) == [e0 |-> n, data |-> [x \in 0..(n - 1) |-> f[x]]]
\* A rank-2 view of m x k cells, every cell holding v.
View2Fill(m, k, v) ==
  [e0 |-> m, e1 |-> k,
   data |-> [c \in (0..(m - 1)) \X (0..(k - 1)) |-> v]]
EmptyView1 == [e0 |-> 0, data |-> <<>>]
EmptyView2 == View2Fill(0, 0, UninitInt)

Cells(v) == DOMAIN v.data

\* All rank-1 views of length n over the set S.
Views1(n, S) == {[e0 |-> n, data |-> f] : f \in [0..(n - 1) -> S]}


\* ------------------------------------------------------------------ state
VARIABLES
  pc,               \* where the program is: "start", "tree", "query",
                    \* "fill_alloc", "fill", "coeffs" (inside the constructor),
                    \* "ready" (the constructor returned), "failed" (the
                    \* constructor was left by an error of the solver),
                    \* "abort_num_neighbors" / "abort_source_values"
                    \* (Kokkos::abort ended the program in KOKKOS_ASSERT)
  source_points,    \* constructor argument: rank-1 view of points
  target_points,    \* constructor argument: rank-1 view of points
  num_neighbors,    \* constructor argument: Nullopt or an int
  degree,           \* PolynomialDegree::value
  num_neighbors_val, \* constructor local
  num_targets,      \* constructor local
  source_tree,      \* constructor local: the indexed points of the tree
  indices,          \* constructor local: flat query result
  offsets,          \* constructor local: offsets of the query result
  source_view,      \* local of fillValuesIndicesAndGetSourceView
  fill_pending,     \* cells (i, j) of the fill parallel_for not yet run
  _source_size,     \* member
  _values_indices,  \* member
  _coeffs,          \* member
  ipc,              \* per caller: "idle", "running", "returned", "violated"
  source_values,    \* per caller: the argument of the current/last call
  approx_values,    \* per caller: the caller's output view
  itask,            \* per caller: per target i, the loop state of the
                    \* interpolation lambda: [j, tmp, done]
  built             \* history: the members as they were when the
                    \* constructor returned

ctor_vars == <<source_points, target_points, num_neighbors, degree,
               num_neighbors_val, num_targets, source_tree, indices, offsets,
               source_view, fill_pending>>
members == <<_source_size, _values_indices, _coeffs>>
call_vars == <<ipc, source_values, approx_values, itask>>
vars == <<pc, ctor_vars, members, call_vars, built>>

Points == 0..MaxCoord
Size(v) == v.e0

\* ------------------------------------- collaborators (other headers)
\* Details::polynomialBasisSize<dimension, degree>(): the number of monomials
\* of degree <= deg in dim variables.
polynomialBasisSize(dim, deg) == Binomial(dim + deg, deg)

Dist(a, b) == Abs(a - b)

\* The answers BoundingVolumeHierarchy::query may give to nearest(p, k) on the
\* tree: the min(k, size) nearest indexed points, in any order, ties broken
\* in any way.  An answer is a function from 0..len-1 to source indices.
NearestAnswers(tree, p, k) ==
  LET n == Size(tree)
      len == IF k < 1 THEN 0 ELSE IF k < n THEN k ELSE n
      Rng(f) == {f[x] : x \in DOMAIN f}
  IN  {f \in [0..(len - 1) -> 0..(n - 1)] :
         /\ \A x, y \in DOMAIN f : x # y => f[x] # f[y]
         /\ \A s \in Rng(f) : \A u \in (0..(n - 1)) \ Rng(f) :
              Dist(tree.data[s], p) <= Dist(tree.data[u], p)}

\* The compressed result of the batched query whose per-target answers are
\* ans: offsets (length M + 1) and the flat indices.
RECURSIVE QueryOffset(_, _)
QueryOffset(ans, i) ==
  IF i = 0 THEN 0 ELSE QueryOffset(ans, i - 1) + Cardinality(DOMAIN ans[i - 1])

QueryOffsets(ans, m) == View1(m + 1, [i \in 0..m |-> QueryOffset(ans, i)])

QueryIndices(ans, m) ==
  LET total == QueryOffset(ans, m)
      Seg(x) == CHOOSE i \in 0..(m - 1) :
                  QueryOffset(ans, i) <= x /\ x < QueryOffset(ans, i + 1)
  IN  View1(total, [x \in 0..(total - 1) |-> ans[Seg(x)][x - QueryOffset(ans, Seg(x))]])


\* ---- Details::movingLeastSquaresCoefficients (specification, section 4.2)
RECURSIVE SumTo(_, _)
\* f[0] + ... + f[n - 1]
SumTo(f, n) == IF n = 0 THEN 0 ELSE SumTo(f, n - 1) + f[n - 1]

\* The matrix m (n x n) without row 0 and column c.
Minor(m, n, c) ==
  [a \in 0..(n - 2) |-> [b \in 0..(n - 2) |-> m[a + 1][IF b < c THEN b ELSE b + 1]]]

RECURSIVE Det(_, _)
\* The determinant of the n x n integer matrix m (expansion along row 0).
Det(m, n) ==
  IF n = 0 THEN 1
  ELSE SumTo([c \in 0..(n - 1) |->
                (IF c % 2 = 0 THEN 1 ELSE -1) * m[0][c] * Det(Minor(m, n, c), n - 1)], n)

\* The support radius h of a target whose farthest neighbour is at distance
\* far: the distance to the farthest neighbour (policy 0, the default) or a
\* configured enlargement of it (policy 1).
SupportRadius(far, policy) == far + policy

\* The compact kernel, with the common factor 1/h^2 left out (the weights of
\* a target are invariant under a common scaling of the kernel values):
\* h^2 * (1 - dist/h)^2 inside the support, 0 outside.
KernelScaled(dist, h) == IF dist >= h THEN 0 ELSE (h - dist) * (h - dist)

\* A slip in step 4: the kernel factor W_jj is left out.
NeighborWeight_NoKernel(omega, ac, den) == Rat(ac, den)

\* Step 4 of the solve: w_j = W_jj * (A c)_j, with (A c)_j = ac / den.
NeighborWeight(omega, ac, den) == Rat(omega * ac, den)

\* The solve of one target at position p from its neighbour positions q
\* (a function on 0..k-1): [ok, w], w the k weights as rationals.
\*  1. design matrix A: row j is the monomial basis (1, x, x^2, ...) at
\*     x = q[j] - p;
\*  2. W_jj = kernel(|q[j] - p| / h);
\*  3. the normal equations (A^T W A) c = e_0, solved rank-aware: on the
\*     largest nonsingular leading block of the Gram matrix (Cramer's rule),
\*     the remaining components of c being 0; the target fails when the
\*     Gram matrix is 0 or c does not solve the full system;
\*  4. w_j = W_jj * (A c)_j.
SolveTarget(p, q, k, deg, policy) ==
  LET nterms == polynomialBasisSize(dimension, deg)
      x(j) == q[j] - p
      far == IF k = 0 THEN 0
             ELSE CHOOSE m \in {Abs(x(j)) : j \in 0..(k - 1)} :
                    \A j \in 0..(k - 1) : Abs(x(j)) <= m
      h == SupportRadius(far, policy)
      omega(j) == KernelScaled(Abs(x(j)), h)
      Moment(e) == SumTo([j \in 0..(k - 1) |-> omega(j) * Pow(x(j), e)], k)
      Gram(r) == [a \in 0..(r - 1) |-> [b \in 0..(r - 1) |-> Moment(a + b)]]
      rank == CHOOSE r \in 0..nterms :
                /\ Det(Gram(r), r) # 0
                /\ \A r2 \in (r + 1)..nterms : Det(Gram(r2), r2) = 0
      den == Det(Gram(rank), rank)
      \* Cramer: the Gram block with column a replaced by e_0
      Repl(a) == [i \in 0..(rank - 1) |-> [b \in 0..(rank - 1) |->
                    IF b = a THEN (IF i = 0 THEN 1 ELSE 0) ELSE Gram(rank)[i][b]]]
      cnum(a) == IF a < rank THEN Det(Repl(a), rank) ELSE 0
      solves == \A a \in 0..(nterms - 1) :
                  SumTo([b \in 0..(nterms - 1) |-> Moment(a + b) * cnum(b)], nterms)
                    = (IF a = 0 THEN den ELSE 0)
      Ac(j) == SumTo([a \in 0..(nterms - 1) |-> cnum(a) * Pow(x(j), a)], nterms)
  IN  IF h = 0 \/ rank = 0 \/ ~solves
      THEN [ok |-> FALSE, w |-> <<>>]
      ELSE [ok |-> TRUE, w |-> [j \in 0..(k - 1) |-> NeighborWeight(omega(j), Ac(j), den)]]

\* All targets: [ok, coeffs]; one failing target fails the whole computation.
movingLeastSquaresCoefficients(sv, tp, deg, policy) ==
  LET m == sv.e0
      k == sv.e1
      sol(i) == SolveTarget(tp.data[i], [j \in 0..(k - 1) |-> sv.data[<<i, j>>]],
                            k, deg, policy)
  IN  IF \E i \in 0..(m - 1) : ~sol(i).ok
      THEN [ok |-> FALSE, coeffs |-> View2Fill(0, 0, UninitVal)]
      ELSE [ok |-> TRUE,
            coeffs |-> [e0 |-> m, e1 |-> k,
                        data |-> [c \in (0..(m - 1)) \X (0..(k - 1)) |-> sol(c[1]).w[c[2]]]]]


\* ---------------------------------------------------------------- Init
Init ==
  /\ pc = "start"
  /\ source_points = EmptyView1
  /\ target_points = EmptyView1
  /\ num_neighbors = Nullopt
  /\ degree = 0
  /\ num_neighbors_val = UninitInt
  /\ num_targets = UninitInt
  /\ source_tree = NoTree
  /\ indices = EmptyView1
  /\ offsets = EmptyView1
  /\ source_view = EmptyView2
  /\ fill_pending = {}
  /\ _source_size = UninitInt
  /\ _values_indices = EmptyView2
  /\ _coeffs = EmptyView2
  /\ ipc = [c \in Callers |-> "idle"]
  /\ source_values = [c \in Callers |-> EmptyView1]
  /\ approx_values = [c \in Callers |-> EmptyView1]
  /\ itask = [c \in Callers |-> <<>>]
  /\ built = <<>>

\* The arguments a constructor call is made with.
SourcePointsArgs == UNION {Views1(n, Points) : n \in 0..MaxN}
TargetPointsArgs == UNION {Views1(m, Points) : m \in 0..MaxM}
NumNeighborsArgs == {Nullopt} \cup (-1..(MaxN + 1))
DegreeArgs == 0..MaxDegree
RadiusPolicies == {0, 1}

\* ------------------------------------------------------- the constructor
\* A slip in the assertion: the upper bound is not checked.
EnoughSourcePoints_NoUpperBound(k, n) == 0 < k

\* KOKKOS_ASSERT(0 < num_neighbors_val && num_neighbors_val <= _source_size)
EnoughSourcePoints(k, n) == 0 < k /\ k <= n

\* The constructor up to and including the assertion on the neighbour count.
CtorBegin(src, tgt, nn, deg) ==
  /\ pc = "start"
  /\ source_points' = src
  /\ target_points' = tgt
  /\ num_neighbors' = nn
  /\ degree' = deg
  /\ num_neighbors_val' =
       (IF nn # Nullopt THEN nn ELSE polynomialBasisSize(dimension, deg))
  /\ num_targets' = Size(tgt)
  /\ _source_size' = Size(src)
  /\ pc' = IF EnoughSourcePoints(num_neighbors_val', _source_size')
           THEN "tree" ELSE "abort_num_neighbors"
  /\ UNCHANGED <<source_tree, indices, offsets, source_view, fill_pending,
                 _values_indices, _coeffs, call_vars, built>>

\* source_tree(space, attach_indices(source_points))
CtorTree ==
  /\ pc = "tree"
  /\ source_tree' = source_points
  /\ pc' = "query"
  /\ UNCHANGED <<source_points, target_points, num_neighbors, degree,
                 num_neighbors_val, num_targets, indices, offsets, source_view,
                 fill_pending, members, call_vars, built>>

\* The predicates (nearest(target i, num_neighbors_val)) and the query.
CtorQuery ==
  /\ pc = "query"
  /\ \E ans \in [0..(num_targets - 1) ->
                   UNION {NearestAnswers(source_tree, p, num_neighbors_val) : p \in Points}] :
       /\ \A i \in 0..(num_targets - 1) :
            ans[i] \in NearestAnswers(source_tree, target_points.data[i], num_neighbors_val)
       /\ indices' = QueryIndices(ans, num_targets)
       /\ offsets' = QueryOffsets(ans, num_targets)
  /\ pc' = "fill_alloc"
  /\ UNCHANGED <<source_points, target_points, num_neighbors, degree,
                 num_neighbors_val, num_targets, source_tree, source_view,
                 fill_pending, members, call_vars, built>>

\* fillValuesIndicesAndGetSourceView: the two allocations.
FillAlloc ==
  /\ pc = "fill_alloc"
  /\ _values_indices' = View2Fill(num_targets, num_neighbors_val, UninitInt)
  /\ source_view' = View2Fill(num_targets, num_neighbors_val, UninitInt)
  /\ fill_pending' = (0..(num_targets - 1)) \X (0..(num_neighbors_val - 1))
  /\ pc' = "fill"
  /\ UNCHANGED <<source_points, target_points, num_neighbors, degree,
                 num_neighbors_val, num_targets, source_tree, indices, offsets,
                 _source_size, _coeffs, call_vars, built>>

\* A slip in the lambda: the slot j is left out of the read, every slot of a
\* row receives the first neighbour of its target.
FillTask_FirstSlot(i, j) ==
  /\ pc = "fill"
  /\ <<i, j>> \in fill_pending
  /\ LET index == indices.data[offsets.data[i]]
     IN  /\ _values_indices' = [_values_indices EXCEPT !.data[<<i, j>>] = index]
         /\ source_view' = [source_view EXCEPT !.data[<<i, j>>] = source_points.data[index]]
  /\ fill_pending' = fill_pending \ {<<i, j>>}
  /\ UNCHANGED <<pc, source_points, target_points, num_neighbors, degree,
                 num_neighbors_val, num_targets, source_tree, indices, offsets,
                 _source_size, _coeffs, call_vars, built>>

\* A slip in the lambda: the task at (i, j) writes its index to every slot of
\* row i from j on.
FillTask_RestOfRow(i, j) ==
  /\ pc = "fill"
  /\ <<i, j>> \in fill_pending
  /\ LET index == indices.data[offsets.data[i] + j]
         mine == {cell \in Cells(_values_indices) : cell[1] = i /\ cell[2] >= j}
     IN  /\ _values_indices' =
               [_values_indices EXCEPT !.data =
                  [cell \in Cells(_values_indices) |->
                     IF cell \in mine THEN index ELSE _values_indices.data[cell]]]
         /\ source_view' =
               [source_view EXCEPT !.data =
                  [cell \in Cells(source_view) |->
                     IF cell \in mine THEN source_points.data[index]
                     ELSE source_view.data[cell]]]
  /\ fill_pending' = fill_pending \ {<<i, j>>}
  /\ UNCHANGED <<pc, source_points, target_points, num_neighbors, degree,
                 num_neighbors_val, num_targets, source_tree, indices, offsets,
                 _source_size, _coeffs, call_vars, built>>

\* fillValuesIndicesAndGetSourceView: the lambda of the parallel_for at (i, j).
FillTask(i, j) ==
  /\ pc = "fill"
  /\ <<i, j>> \in fill_pending
  /\ LET index == indices.data[offsets.data[i] + j]
     IN  /\ _values_indices' = [_values_indices EXCEPT !.data[<<i, j>>] = index]
         /\ source_view' = [source_view EXCEPT !.data[<<i, j>>] = source_points.data[index]]
  /\ fill_pending' = fill_pending \ {<<i, j>>}
  /\ UNCHANGED <<pc, source_points, target_points, num_neighbors, degree,
                 num_neighbors_val, num_targets, source_tree, indices, offsets,
                 _source_size, _coeffs, call_vars, built>>

\* The parallel_for is complete.
FillDone == pc = "fill" /\ fill_pending = {}

\* A slip: an error of the coefficient computation is swallowed and the
\* constructor returns.
CtorCoefficients_SwallowsFailure(policy) ==
  /\ FillDone
  /\ LET r == movingLeastSquaresCoefficients(source_view, target_points, degree, policy)
     IN  /\ _coeffs' = (IF r.ok THEN r.coeffs ELSE _coeffs)
         /\ pc' = "ready"
         /\ built' = [source_size |-> _source_size,
                      values_indices |-> _values_indices,
                      coeffs |-> _coeffs']
  /\ source_tree' = NoTree
  /\ indices' = EmptyView1
  /\ offsets' = EmptyView1
  /\ source_view' = EmptyView2
  /\ UNCHANGED <<source_points, target_points, num_neighbors, degree,
                 num_neighbors_val, num_targets, fill_pending,
                 _source_size, _values_indices, call_vars>>

\* The rest of the constructor: source_view is returned, the coefficients are
\* computed and assigned, the locals are destroyed.  An error of the
\* computation leaves the constructor: no object.
CtorCoefficients(policy) ==
  /\ FillDone
  /\ LET r == movingLeastSquaresCoefficients(source_view, target_points, degree, policy)
     IN  IF r.ok
         THEN /\ _coeffs' = r.coeffs
              /\ pc' = "ready"
              /\ built' = [source_size |-> _source_size,
                           values_indices |-> _values_indices,
                           coeffs |-> r.coeffs]
         ELSE /\ pc' = "failed"
              /\ UNCHANGED <<_coeffs, built>>
  /\ source_tree' = NoTree
  /\ indices' = EmptyView1
  /\ offsets' = EmptyView1
  /\ source_view' = EmptyView2
  /\ UNCHANGED <<source_points, target_points, num_neighbors, degree,
                 num_neighbors_val, num_targets, fill_pending,
                 _source_size, _values_indices, call_vars>>


\* ------------------------------------------------------------ interpolate
\* The source values a caller may pass: of the right length, one shorter or
\* one longer, over 0..MaxVal.
SourceValuesArgs ==
  UNION {Views1(n, 0..MaxVal) :
           n \in {x \in {_source_size - 1, _source_size, _source_size + 1} : x >= 0}}

\* A slip in the assertion: longer source values are let through.
SourceValuesFit_AtLeast(size, extent) == size <= extent

\* KOKKOS_ASSERT(_source_size == source_values.extent_int(0))
SourceValuesFit(size, extent) == size = extent

\* The caller creates its output view, of any length.
CallerAlloc(c, n) ==
  /\ pc = "ready"
  /\ ipc[c] = "idle"
  /\ approx_values[c].e0 # n
  /\ approx_values' = [approx_values EXCEPT ![c] = View1(n, [x \in 0..(n - 1) |-> Zero])]
  /\ UNCHANGED <<pc, ctor_vars, members, ipc, source_values, itask, built>>

\* A slip: an output view that already has the right length is kept and the
\* lambda adds to what it holds (approx_values(i) += ...).
InterpolateBegin_Accumulating(c, sv) ==
  /\ pc = "ready"
  /\ ipc[c] \in {"idle", "returned"}
  /\ source_values' = [source_values EXCEPT ![c] = sv]
  /\ IF SourceValuesFit(_source_size, sv.e0)
     THEN LET m == _values_indices.e0
              keep == approx_values[c].e0 = m
          IN  /\ approx_values' =
                   [approx_values EXCEPT ![c] =
                      IF keep THEN approx_values[c]
                      ELSE View1(m, [x \in 0..(m - 1) |-> UninitVal])]
              /\ itask' = [itask EXCEPT ![c] =
                             [i \in 0..(m - 1) |->
                                [j |-> 0,
                                 tmp |-> IF keep THEN approx_values[c].data[i] ELSE Zero,
                                 done |-> FALSE]]]
              /\ ipc' = [ipc EXCEPT ![c] = "running"]
              /\ pc' = pc
     ELSE /\ pc' = "abort_source_values"
          /\ ipc' = [ipc EXCEPT ![c] = "violated"]
          /\ UNCHANGED <<approx_values, itask>>
  /\ UNCHANGED <<ctor_vars, members, built>>

\* interpolate up to the launch of the parallel_for: the assertion on the
\* length of the source values, then the reallocation of the output view.
InterpolateBegin(c, sv) ==
  /\ pc = "ready"
  /\ ipc[c] \in {"idle", "returned"}
  /\ source_values' = [source_values EXCEPT ![c] = sv]
  /\ IF SourceValuesFit(_source_size, sv.e0)
     THEN LET m == _values_indices.e0
          IN  /\ approx_values' =
                   [approx_values EXCEPT ![c] = View1(m, [x \in 0..(m - 1) |-> UninitVal])]
              /\ itask' = [itask EXCEPT ![c] =
                             [i \in 0..(m - 1) |-> [j |-> 0, tmp |-> Zero, done |-> FALSE]]]
              /\ ipc' = [ipc EXCEPT ![c] = "running"]
              /\ pc' = pc
     ELSE /\ pc' = "abort_source_values"
          /\ ipc' = [ipc EXCEPT ![c] = "violated"]
          /\ UNCHANGED <<approx_values, itask>>
  /\ UNCHANGED <<ctor_vars, members, built>>

\* A slip in the lambda: the source values are read at the slot j, not at the
\* source index the table holds for (i, j).
InterpolateAccumulate_SlotIndex(c, i) ==
  /\ pc = "ready"
  /\ ipc[c] = "running"
  /\ i \in DOMAIN itask[c]
  /\ LET t == itask[c][i]
         num == _values_indices.e1
     IN  /\ ~t.done
         /\ t.j < num
         /\ itask' = [itask EXCEPT ![c][i] =
              [j |-> t.j + 1,
               tmp |-> RatAdd(t.tmp,
                         RatMul(_coeffs.data[<<i, t.j>>],
                                Rat(source_values[c].data[t.j], 1))),
               done |-> FALSE]]
  /\ UNCHANGED <<pc, ctor_vars, members, ipc, source_values, approx_values, built>>

\* The lambda at target i: one iteration of the loop over the neighbours.
InterpolateAccumulate(c, i) ==
  /\ pc = "ready"
  /\ ipc[c] = "running"
  /\ i \in DOMAIN itask[c]
  /\ LET t == itask[c][i]
         num == _values_indices.e1
     IN  /\ ~t.done
         /\ t.j < num
         /\ itask' = [itask EXCEPT ![c][i] =
              [j |-> t.j + 1,
               tmp |-> RatAdd(t.tmp,
                         RatMul(_coeffs.data[<<i, t.j>>],
                                Rat(source_values[c].data[_values_indices.data[<<i, t.j>>]], 1))),
               done |-> FALSE]]
  /\ UNCHANGED <<pc, ctor_vars, members, ipc, source_values, approx_values, built>>

\* A slip in the lambda: the result is also stored into the coefficient table.
InterpolateStore_IntoCoeffs(c, i) ==
  /\ pc = "ready"
  /\ ipc[c] = "running"
  /\ i \in DOMAIN itask[c]
  /\ LET t == itask[c][i]
     IN  /\ ~t.done
         /\ t.j >= _values_indices.e1
         /\ approx_values' = [approx_values EXCEPT ![c].data[i] = t.tmp]
         /\ _coeffs' = [_coeffs EXCEPT !.data =
                          [cell \in Cells(_coeffs) |->
                             IF cell = <<i, 0>> THEN t.tmp ELSE _coeffs.data[cell]]]
         /\ itask' = [itask EXCEPT ![c][i].done = TRUE]
  /\ UNCHANGED <<pc, ctor_vars, _source_size, _values_indices, ipc, source_values, built>>

\* A slip: the output is one buffer shared by the calls, the lambda of one
\* call stores into the view of every caller.
InterpolateStore_SharedOutput(c, i) ==
  /\ pc = "ready"
  /\ ipc[c] = "running"
  /\ i \in DOMAIN itask[c]
  /\ LET t == itask[c][i]
     IN  /\ ~t.done
         /\ t.j >= _values_indices.e1
         /\ approx_values' =
              [d \in Callers |->
                 IF i \in DOMAIN approx_values[d].data
                 THEN [approx_values[d] EXCEPT !.data[i] = t.tmp]
                 ELSE approx_values[d]]
         /\ itask' = [itask EXCEPT ![c][i].done = TRUE]
  /\ UNCHANGED <<pc, ctor_vars, members, ipc, source_values, built>>

\* The lambda at target i: the loop is over, approx_values(i) = tmp.
InterpolateStore(c, i) ==
  /\ pc = "ready"
  /\ ipc[c] = "running"
  /\ i \in DOMAIN itask[c]
  /\ LET t == itask[c][i]
     IN  /\ ~t.done
         /\ t.j >= _values_indices.e1
         /\ approx_values' = [approx_values EXCEPT ![c].data[i] = t.tmp]
         /\ itask' = [itask EXCEPT ![c][i].done = TRUE]
  /\ UNCHANGED <<pc, ctor_vars, members, ipc, source_values, built>>

\* The parallel_for is complete and interpolate has returned.
InterpolateReturn(c) ==
  /\ pc = "ready"
  /\ ipc[c] = "running"
  /\ \A i \in DOMAIN itask[c] : itask[c][i].done
  /\ ipc' = [ipc EXCEPT ![c] = "returned"]
  /\ itask' = [itask EXCEPT ![c] = <<>>]
  /\ UNCHANGED <<pc, ctor_vars, members, source_values, approx_values, built>>

\* ------------------------------------------------------------------ Next
\* The steps of the constructor after its first one.
CtorStep ==
  \/ CtorTree
  \/ CtorQuery
  \/ FillAlloc
  \/ \E i \in 0..(MaxM - 1), j \in 0..MaxN : FillTask(i, j)
  \/ \E policy \in RadiusPolicies : CtorCoefficients(policy)

\* The steps of a call of interpolate by caller c.
CallStep(c) ==
  \/ \E sv \in SourceValuesArgs : InterpolateBegin(c, sv)
  \/ \E i \in 0..(MaxM - 1) : InterpolateAccumulate(c, i)
  \/ \E i \in 0..(MaxM - 1) : InterpolateStore(c, i)
  \/ InterpolateReturn(c)

\* One operator, constructed from any arguments and then used by one caller,
\* call after call.
Next ==
  \/ \E src \in SourcePointsArgs, tgt \in TargetPointsArgs,
        nn \in NumNeighborsArgs, deg \in DegreeArgs : CtorBegin(src, tgt, nn, deg)
  \/ CtorStep
  \/ \E n \in 0..(MaxM + 1) : CallerAlloc(1, n)
  \/ CallStep(1)

Spec == Init /\ [][Next]_vars

\* One operator over the MaxN source points 0, 1, ... and MaxM target points,
\* with MaxN neighbours per target, used by all the callers, whose calls may
\* overlap.
NextPar ==
  \/ \E tgt \in Views1(MaxM, Points), deg \in DegreeArgs :
       CtorBegin(View1(MaxN, [x \in 0..(MaxN - 1) |-> x]), tgt, MaxN, deg)
  \/ CtorStep
  \/ \E c \in Callers : CallStep(c)

SpecPar == Init /\ [][NextPar]_vars


\* ================================================================ claims
\* What the claims speak of.
N == Size(source_points)
M == Size(target_points)
K == num_neighbors_val
Constructed == pc \in {"ready", "abort_source_values"}
Members == [source_size |-> _source_size,
            values_indices |-> _values_indices,
            coeffs |-> _coeffs]

RECURSIVE RatSumTo(_, _)
\* f[0] + ... + f[n - 1] over the rationals, in this order
RatSumTo(f, n) == IF n = 0 THEN Zero ELSE RatAdd(RatSumTo(f, n - 1), f[n - 1])

\* sum over j in 0..k-1 of coeff[t][j] * fieldValues[index[t][j]]
WeightedSum(coeffs, index, field, t) ==
  RatSumTo([j \in 0..(coeffs.e1 - 1) |->
              RatMul(coeffs.data[<<t, j>>], Rat(field.data[index.data[<<t, j>>]], 1))],
           coeffs.e1)

\* ---------------------------------------------------------------- C1
\* C1: a constructor call whose neighbour count K (given or defaulted) is not
\* in 0 < K <= N fails in the assertion: the program is ended there, and at
\* that point no tree was built, no query was issued (indices and offsets
\* are still empty), nothing was allocated or gathered and no coefficient
\* was computed.
C1_FailFastConfiguration ==
  (pc # "start" /\ ~(0 < K /\ K <= N)) =>
     /\ pc = "abort_num_neighbors"
     /\ source_tree = NoTree
     /\ indices = EmptyView1 /\ offsets = EmptyView1
     /\ source_view = EmptyView2
     /\ _values_indices = EmptyView2 /\ _coeffs = EmptyView2
     /\ \A c \in Callers : ipc[c] = "idle"

\* A defaulted neighbour count that exceeds a non-empty source set.
C1_Witness ==
  /\ pc = "abort_num_neighbors"
  /\ num_neighbors = Nullopt
  /\ N >= 1 /\ K > N

\* ---------------------------------------------------------------- C2
\* C2 as stated: after a call of interpolate with source values of the wrong
\* length the members are what construction made them and the operator can
\* still be used (the program goes on, so that a later call can be made).
C2_UsableAfterViolation ==
  \A c \in Callers : ipc[c] = "violated" => (Members = built /\ pc = "ready")

\* C2, amended: a call of interpolate with source values whose length is not
\* N is stopped by the assertion before anything is written: in that step
\* the members, every output view and every running task are unchanged, and
\* the program is ended (no call, by any caller, is made or continued after
\* it).  A call with source values of length N is never stopped.
C2_ViolationEndsProgramUntouched ==
  /\ [](\A c \in Callers :
          /\ ipc[c] = "violated" => (pc = "abort_source_values" /\ Size(source_values[c]) # N
                                     /\ Members = built)
          /\ ipc[c] \in {"running", "returned"} => Size(source_values[c]) = N)
  /\ [][/\ (\E c \in Callers : ipc[c] # "violated" /\ ipc'[c] = "violated")
           => UNCHANGED <<members, approx_values, itask>>
        /\ pc # "abort_source_values"]_vars

\* A call with the wrong length made after a call that returned: the output
\* of the earlier call is still in the caller's view.
C2_Witness ==
  \E c \in Callers :
    /\ ipc[c] = "violated"
    /\ M >= 1
    /\ approx_values[c].e0 = M
    /\ \A t \in 0..(M - 1) : approx_values[c].data[t] # UninitVal
    /\ \E t \in 0..(M - 1) : approx_values[c].data[t] # Zero

\* ---------------------------------------------------------------- C3
\* C3: when a call of interpolate has returned, the output view has length M
\* and its cell t holds the sum over j in 0..K-1 of
\* coeff[t][j] * fieldValues[index[t][j]].
C3_InterpolateResult ==
  \A c \in Callers :
    ipc[c] = "returned" =>
      /\ Size(source_values[c]) = N
      /\ approx_values[c].e0 = M
      /\ DOMAIN approx_values[c].data = 0..(M - 1)
      /\ _coeffs.e1 = K /\ _values_indices.e1 = K
      /\ \A t \in 0..(M - 1) :
           approx_values[c].data[t]
             = WeightedSum(_coeffs, _values_indices, source_values[c], t)

\* Two targets, two neighbours each, and a result that is no integer.
C3_Witness ==
  \E c \in Callers :
    /\ ipc[c] = "returned"
    /\ M = 2 /\ K = 2
    /\ \E t \in 0..(M - 1) : approx_values[c].data[t].d > 1


\* ---------------------------------------------------------------- C4
\* What an operator with the members b returns when it is applied once, to
\* field, straight after its construction.
ApplyOnce(b, field) ==
  View1(b.values_indices.e0,
        [t \in 0..(b.values_indices.e0 - 1) |->
           WeightedSum(b.coeffs, b.values_indices, field, t)])

C5_TablesWrittenOnce ==
  /\ [](Constructed => Members = built)
  /\ [][/\ Constructed => UNCHANGED members
        /\ _source_size # UninitInt => _source_size' = _source_size
        /\ _coeffs # EmptyView2 => _coeffs' = _coeffs
        /\ \A cell \in Cells(_values_indices) :
             _values_indices.data[cell] # UninitInt =>
               /\ cell \in Cells(_values_indices')
               /\ _values_indices'.data[cell] = _values_indices.data[cell]]_vars

\* A failing call after a call that returned, on an operator with a 2 x 2
\* table.
C5_Witness ==
  /\ pc = "abort_source_values"
  /\ M = 2 /\ K = 2
  /\ \E c \in Callers : ipc[c] = "violated" /\ approx_values[c].e0 = M

\* ---------------------------------------------------------------- C6
RowSum(t) == RatSumTo([j \in 0..(_coeffs.e1 - 1) |-> _coeffs.data[<<t, j>>]], _coeffs.e1)

IsConstant(field, v) == \A x \in DOMAIN field.data : field.data[x] = v

\* C6: every row of the coefficient table of a constructed operator sums to
\* 1, and a call with source values that all equal v returns v at every
\* target.
C6_ConstantFieldExact ==
  Constructed =>
    /\ \A t \in 0..(M - 1) : RowSum(t) = One
    /\ \A c \in Callers : \A v \in 0..MaxVal :
         (ipc[c] = "returned" /\ IsConstant(source_values[c], v)) =>
           \A t \in 0..(M - 1) : approx_values[c].data[t] = Rat(v, 1)

\* A degree-1 fit over two neighbours with a negative weight (the target
\* lies outside its neighbours), applied to a constant non-zero field.
C6_Witness ==
  \E c \in Callers :
    /\ ipc[c] = "returned"
    /\ degree = 1 /\ K = 2 /\ M >= 1
    /\ IsConstant(source_values[c], 1)
    /\ \E cell \in Cells(_coeffs) : _coeffs.data[cell].n < 0

\* ---------------------------------------------------------------- C7
TablesComplete ==
  /\ _source_size = N
  /\ _values_indices.e0 = M /\ _values_indices.e1 = K
  /\ Cells(_values_indices) = (0..(M - 1)) \X (0..(K - 1))
  /\ \A cell \in Cells(_values_indices) : _values_indices.data[cell] \in 0..(N - 1)
  /\ _coeffs.e0 = M /\ _coeffs.e1 = K
  /\ Cells(_coeffs) = (0..(M - 1)) \X (0..(K - 1))
  /\ \A cell \in Cells(_coeffs) : _coeffs.data[cell].d > 0

\* C7: the constructor either returns with the source size and both tables
\* completely set, or it is left (by the assertion, or by the failure of one
\* target's solve) and there is no operator: no call of interpolate is ever
\* made on an operator whose members are not all set.
C7_ConstructionAtomic ==
  /\ pc = "ready" => TablesComplete
  /\ pc \in {"abort_num_neighbors", "failed"} =>
       \A c \in Callers : ipc[c] = "idle" /\ approx_values[c] = EmptyView1
  /\ (\E c \in Callers : ipc[c] # "idle") => TablesComplete

\* A construction that failed in the solve of the second target only, after
\* the index table had been filled.
C7_Witness ==
  /\ pc = "failed"
  /\ M = 2 /\ K = 2
  /\ \A cell \in Cells(_values_indices) : _values_indices.data[cell] # UninitInt
  /\ _coeffs = EmptyView2
  /\ \E policy \in RadiusPolicies :
       /\ SolveTarget(target_points.data[0],
                      [j \in 0..(K - 1) |-> source_points.data[_values_indices.data[<<0, j>>]]],
                      K, degree, policy).ok
       /\ ~SolveTarget(target_points.data[1],
                       [j \in 0..(K - 1) |-> source_points.data[_values_indices.data[<<1, j>>]]],
                       K, degree, policy).ok

\* ---------------------------------------------------------------- C8
\* Every target's segment of the query result has exactly K entries.
SegmentsExact ==
  /\ offsets.e0 = M + 1
  /\ \A i \in 0..(M - 1) : offsets.data[i + 1] - offsets.data[i] = K
  /\ indices.e0 = offsets.data[M]

\* C8: when the gather is complete, on a query result whose segments have
\* exactly K entries, both tables are M x K, cell (i, j) of the index table
\* is indices[offsets[i] + j], a source index read inside target i's segment,
\* and cell (i, j) of the coordinate table is the source point of that index.
C8_Gather ==
  (FillDone /\ SegmentsExact) =>
     /\ _values_indices.e0 = M /\ _values_indices.e1 = K
     /\ source_view.e0 = M /\ source_view.e1 = K
     /\ Cells(_values_indices) = (0..(M - 1)) \X (0..(K - 1))
     /\ Cells(source_view) = (0..(M - 1)) \X (0..(K - 1))
     /\ \A i \in 0..(M - 1) : \A j \in 0..(K - 1) :
          /\ offsets.data[i] + j < offsets.data[i + 1]
          /\ _values_indices.data[<<i, j>>] = indices.data[offsets.data[i] + j]
          /\ _values_indices.data[<<i, j>>] \in 0..(N - 1)
          /\ source_view.data[<<i, j>>] = source_points.data[indices.data[offsets.data[i] + j]]

\* A complete 2 x 2 gather whose rows differ and whose source points differ.
C8_Witness ==
  /\ FillDone /\ SegmentsExact
  /\ M = 2 /\ K = 2
  /\ _values_indices.data[<<0, 0>>] # _values_indices.data[<<1, 0>>]
  /\ source_view.data[<<0, 0>>] # source_view.data[<<0, 1>>]


\* ---------------------------------------------------------------- C9
RECURSIVE GatherSequential(_)
\* The two tables after the first x tasks of the gather, run one after the
\* other in index order ((0, 0), (0, 1), ..., (1, 0), ...).
GatherSequential(x) ==
  IF x = 0
  THEN [values_indices |-> View2Fill(M, K, UninitInt),
        source_view |-> View2Fill(M, K, UninitInt)]
  ELSE LET prev == GatherSequential(x - 1)
           i == (x - 1) \div K
           j == (x - 1) % K
           index == indices.data[offsets.data[i] + j]
       IN  [values_indices |-> [prev.values_indices EXCEPT !.data[<<i, j>>] = index],
            source_view |->
              [prev.source_view EXCEPT !.data[<<i, j>>] = source_points.data[index]]]

RECURSIVE InterpolateSequential(_, _)
\* The output view of caller c after the tasks of targets 0..n-1, run one
\* after the other in index order.
InterpolateSequential(c, n) ==
  IF n = 0
  THEN View1(M, [x \in 0..(M - 1) |-> UninitVal])
  ELSE [InterpolateSequential(c, n - 1) EXCEPT
          !.data[n - 1] = WeightedSum(_coeffs, _values_indices, source_values[c], n - 1)]

\* A step of the gather's parallel_for is the task of one pending cell: it
\* writes that cell, not written before, of the two tables and no other.
FillStepWritesOwnCell ==
  (pc = "fill" /\ pc' = "fill"
     /\ <<_values_indices, source_view, fill_pending>>'
          # <<_values_indices, source_view, fill_pending>>) =>
    \E cell \in fill_pending :
      /\ fill_pending' = fill_pending \ {cell}
      /\ _values_indices.data[cell] = UninitInt
      /\ \A other \in Cells(_values_indices) \ {cell} :
           /\ _values_indices'.data[other] = _values_indices.data[other]
           /\ source_view'.data[other] = source_view.data[other]

\* A step of a running call is the task of one target: it changes the loop
\* state of that target and the cell of that target, not stored before, and
\* no other.
InterpolateStepWritesOwnCell ==
  \A c \in Callers :
    (ipc[c] = "running" /\ ipc'[c] = "running"
       /\ <<approx_values[c], itask[c]>>' # <<approx_values[c], itask[c]>>) =>
      \E i \in DOMAIN itask[c] :
        /\ approx_values'[c].data[i] # approx_values[c].data[i]
             => approx_values[c].data[i] = UninitVal
        /\ \A other \in DOMAIN itask[c] \ {i} :
             /\ itask'[c][other] = itask[c][other]
             /\ approx_values'[c].data[other] = approx_values[c].data[other]

\* C9: every step of the two parallel_for writes only the cell of its own
\* task, which no other task wrote; and whatever the order of the tasks, the
\* complete gather leaves the tables, and a returned call the output, that
\* running the tasks one after the other in index order gives.
C9_DataParallel ==
  /\ [](FillDone =>
          /\ _values_indices = GatherSequential(M * K).values_indices
          /\ source_view = GatherSequential(M * K).source_view)
  /\ [](\A c \in Callers :
          ipc[c] = "returned" => approx_values[c] = InterpolateSequential(c, M))
  /\ [][FillStepWritesOwnCell /\ InterpolateStepWritesOwnCell]_vars

\* The task of the last target has stored its result while the task of the
\* first target has not begun.
C9_Witness ==
  \E c \in Callers :
    /\ ipc[c] = "running"
    /\ M = 2 /\ K = 2
    /\ itask[c][1].done /\ approx_values[c].data[1] # UninitVal
    /\ itask[c][0].j = 0 /\ approx_values[c].data[0] = UninitVal

\* ---------------------------------------------------------------- C10
CallerChanged(c) ==
  <<ipc[c], source_values[c], approx_values[c], itask[c]>>'
    # <<ipc[c], source_values[c], approx_values[c], itask[c]>>

\* C10: a step of one call changes nothing of another caller (its source
\* values, its output view, its tasks) and, while calls run, nothing of the
\* members; a call that has returned, whatever overlapped with it, left in
\* its own output view what the members give for its own source values.
C10_ConcurrentCalls ==
  /\ [](\A c \in Callers :
          ipc[c] = "returned" =>
            approx_values[c] = ApplyOnce(Members, source_values[c]))
  /\ [][/\ \A c, d \in Callers : (c # d /\ CallerChanged(c)) => ~CallerChanged(d)
        /\ (\E c \in Callers : ipc[c] = "running") => UNCHANGED members]_vars

\* Two calls with different source values, both between their first and
\* their last store.
C10_Witness ==
  /\ source_values[1] # source_values[2]
  /\ \A c \in Callers :
       /\ ipc[c] = "running"
       /\ \E i \in DOMAIN itask[c] : itask[c][i].done
       /\ \E i \in DOMAIN itask[c] : ~itask[c][i].done

====
